---- MODULE Spec2Model ----
(***************************************************************************)
(* UART baud rate detection through a HydraBus adapter.                    *)
(* Model of Baudrate.run / Baudrate.baudrate_detect of                     *)
(* hbfmodules/uart/baudrates.py (pyHydrabus revision, rev = "baudrates")   *)
(* and hbfmodules/uart/baudrate.py (raw serial revision, rev = "baudrate").*)
(* The single thread of control is followed from one blocking call (read, *)
(* button wait, prompt, terminal session) to the next.                     *)
(***************************************************************************)
EXTENDS Integers, Sequences, FiniteSets, TLC

VARIABLES
    rev,          \* which of the two source revisions is running
    trigger,      \* the "trigger" option
    pc,           \* position of the run
    idx,          \* index of the current candidate in self.baudrates
    loop,         \* trigger attempts made for the current candidate
    count, whitespace, punctuation, vowels,   \* the classification window
    tmp,          \* result of the last read(1): a byte, Empty, or NoRead
    fresh,        \* no read(1) was made yet for the current candidate
    mode,         \* protocol mode of the adapter
    linkOpen,     \* the serial handle held by the module is open
    attempted,    \* rates for which the baud rate was set, in order
    bridged,      \* rates for which the bridge was started, in order
    found,        \* rates logged as "Valid Baudrate found", in order
    resets,       \* calls of exit_bbio / hb_reset
    outcome,      \* how the run ended
    dirty,        \* some candidate ended otherwise than by a silent timeout
    cleanFound,   \* candidate first confirmed at the threshold after silence
    handshakes,   \* calls of init_hb / connect
    hsFailed,     \* the init_hb / connect call just made has failed
    waits,        \* calls of hb_wait_ubtn made for the current candidate
    triggers,     \* calls of trigger_device made for the current candidate
    erased        \* valid bytes wiped by the invalid byte of this candidate

vars == <<rev, trigger, pc, idx, loop, count, whitespace, punctuation, vowels,
          tmp, fresh, mode, linkOpen, attempted, bridged, found, resets,
          outcome, dirty, cleanFound, handshakes, hsFailed, waits,
          triggers, erased>>

(* ------------------------------ bounds --------------------------------- *)
\* a candidate is offered no further valid byte once count reaches MaxCount
MaxCount == 27
\* the stream holds at most this many bytes of each counted category
MaxWhitespace == 1
MaxPunctuation == 1
MaxVowels == 1

(* --------------------------- program constants ------------------------- *)
threshold == 25
MaxTrigger == 3

\* a scan plan that lost its last candidate
baudrates_short == <<9600, 19200, 38400, 57600>>

baudrates == <<9600, 19200, 38400, 57600, 115200>>

Empty == -1     \* read(1) returned b'' (timeout)
NoRead == -2    \* tmp not assigned yet

\* bytes the link may deliver: at least one for every way a byte can go
\* through decode, valid_characters and the three category lists
ByteInputs == {9, 14, 15, 32, 46, 97, 120, 127, 192, 255}

(* ------------------------ characters and bytes ------------------------- *)
\* a Python str of one code point, and a Python bytes of length one
Str(cp) == <<"str", cp>>
Byt(b) == <<"bytes", b>>

self_vowels == {Str(97), Str(65), Str(101), Str(69), Str(105), Str(73),
                Str(111), Str(79), Str(117), Str(85)}
self_whitespace == {Str(32), Str(9), Str(13), Str(10)}
self_punctation == {Str(46), Str(44), Str(58), Str(59), Str(63), Str(33)}
self_control == {Byt(14), Byt(15), Byt(224), Byt(254), Byt(192)}

\* ' ' .. '~' as str, then the whitespace strs, then the control bytes
gen_char_list ==
    {Str(c) : c \in 32..126} \cup self_whitespace \cup self_control

\* tmp.decode('utf-8') of a single byte: a str for 0x00-0x7F, otherwise
\* UnicodeDecodeError and the bytes object itself is kept
decode(b) == IF b < 128 THEN Str(b) ELSE Byt(b)

\* byte in valid_characters
is_valid(b) == decode(b) \in gen_char_list

\* a confirmation test that insists on punctuation
is_confirmed_punct(c, w, p, v) == c >= threshold /\ w > 0 /\ p > 0 /\ v > 0

\* the confirmation test applied after a valid byte
is_confirmed(c, w, p, v) == c >= threshold /\ w > 0 /\ p >= 0 /\ v > 0

(* ------------------------------- state --------------------------------- *)
Revisions == {"baudrates", "baudrate"}
NumRates == Len(baudrates)

Init ==
    /\ rev \in Revisions
    /\ trigger \in BOOLEAN
    /\ pc = "start"
    /\ idx = 1
    /\ loop = 0
    /\ count = 0 /\ whitespace = 0 /\ punctuation = 0 /\ vowels = 0
    /\ tmp = NoRead
    /\ fresh = TRUE
    /\ mode = "Console"
    /\ linkOpen = FALSE
    /\ attempted = <<>>
    /\ bridged = <<>>
    /\ found = <<>>
    /\ resets = 0
    /\ outcome = "Running"
    /\ dirty = FALSE
    /\ cleanFound = 0
    /\ handshakes = 0
    /\ hsFailed = FALSE
    /\ waits = 0
    /\ triggers = 0
    /\ erased = 0

Window == <<count, whitespace, punctuation, vowels>>

\* assignment of the four counters
SetWindow(win) ==
    /\ count' = win[1] /\ whitespace' = win[2]
    /\ punctuation' = win[3] /\ vowels' = win[4]

\* an iteration that stays on the same candidate
NextIdx_same(i) == i

\* the for loop moves to the next element of self.baudrates
NextIdx(i) == i + 1

(* --------------------- run(): opening the adapter ---------------------- *)
\* init_hb() / connect() at the head of run(): on success the adapter is in
\* UART mode and baudrate_detect() starts with a zero window; on failure an
\* error is logged and run() returns without touching the adapter again.
RunInit ==
    /\ pc = "start"
    /\ \E ok \in BOOLEAN :
        /\ hsFailed' = ~ok
        /\ IF ok
           THEN /\ linkOpen' = TRUE
                /\ mode' = "UartControl"
                /\ pc' = "change"
                /\ outcome' = outcome
           ELSE /\ linkOpen' = linkOpen
                /\ mode' = mode
                /\ pc' = "done"
                /\ outcome' = "Fatal"
    /\ handshakes' = handshakes + 1
    /\ idx' = 1
    /\ count' = 0 /\ whitespace' = 0 /\ punctuation' = 0 /\ vowels' = 0
    /\ UNCHANGED <<rev, trigger, loop, tmp, fresh, attempted, bridged, found,
                   resets, dirty, cleanFound, waits, triggers, erased>>

\* the statements of run() after baudrate_detect() returns: reset to console
\* mode and close.  On a handle that is already closed the write raises.
ExitBbioAndClose ==
    /\ resets' = resets + 1
    /\ pc' = "done"
    /\ linkOpen' = FALSE
    /\ IF linkOpen
       THEN mode' = "Console" /\ outcome' = "Returned"
       ELSE mode' = mode /\ outcome' = "Raised"

(* ------------------ for baudrate in self.baudrates --------------------- *)
\* head of the for loop: the end of baudrate_detect(), or the next candidate.
\* For a candidate change_baudrate() starts; in revision "baudrates" it first
\* calls init_hb(), whose result it does not look at.
ForNext ==
    /\ pc = "change"
    /\ IF idx > NumRates
       THEN /\ ExitBbioAndClose
            /\ UNCHANGED <<loop, fresh, handshakes, hsFailed, waits, triggers,
                           erased>>
       ELSE /\ loop' = 0
            /\ fresh' = TRUE
            /\ waits' = 0
            /\ triggers' = 0
            /\ erased' = 0
            /\ pc' = "set_baud"
            /\ UNCHANGED <<resets, outcome>>
            /\ IF rev = "baudrates"
               THEN /\ handshakes' = 1
                    /\ \E hs \in BOOLEAN :
                        /\ hsFailed' = ~hs
                        /\ IF hs THEN linkOpen' = TRUE /\ mode' = "UartControl"
                                 ELSE linkOpen' = linkOpen /\ mode' = mode
               ELSE /\ handshakes' = 0
                    /\ UNCHANGED <<hsFailed, linkOpen, mode>>
    /\ UNCHANGED <<rev, trigger, idx, count, whitespace, punctuation, vowels,
                   tmp, found, cleanFound, attempted, bridged, dirty>>

\* the rest of change_baudrate(baudrate): the baud rate is set and the
\* adapter answers ack; an accepted rate starts the bridge, a rejected one
\* leads to the button wait of the else branch of the for loop
change_baudrate(ack) ==
    /\ pc = "set_baud"
    /\ attempted' = Append(attempted, baudrates[idx])
    /\ hsFailed' = FALSE
    /\ IF ~linkOpen
       THEN \* write on a closed serial handle
            /\ pc' = "done" /\ outcome' = "Raised"
            /\ UNCHANGED <<mode, bridged, dirty, waits>>
       ELSE IF ack
       THEN /\ pc' = "read"
            /\ mode' = "UartBridge"
            /\ bridged' = Append(bridged, baudrates[idx])
            /\ UNCHANGED <<outcome, dirty, waits>>
       ELSE /\ pc' = "wait_reject"
            /\ dirty' = TRUE
            /\ waits' = waits + 1
            /\ UNCHANGED <<outcome, mode, bridged>>
    /\ UNCHANGED <<rev, trigger, idx, loop, count, whitespace, punctuation,
                   vowels, tmp, fresh, linkOpen, found, resets, cleanFound,
                   handshakes, triggers, erased>>

(* --------------------------- the read loop ----------------------------- *)
\* the stream stays within the bounds of the model
Offered(b) ==
    is_valid(b) =>
        /\ count < MaxCount
        /\ decode(b) \in self_whitespace => whitespace < MaxWhitespace
        /\ decode(b) \in self_punctation => punctuation < MaxPunctuation
        /\ decode(b) \in self_vowels => vowels < MaxVowels

\* a count that is only incremented for bytes of no counted category
observe_elsecount(byte, win) ==
    IF byte \in self_whitespace THEN <<win[1], win[2] + 1, win[3], win[4]>>
    ELSE IF byte \in self_punctation THEN <<win[1], win[2], win[3] + 1, win[4]>>
    ELSE IF byte \in self_vowels THEN <<win[1], win[2], win[3], win[4] + 1>>
    ELSE <<win[1] + 1, win[2], win[3], win[4]>>

\* the window <<count, whitespace, punctuation, vowels>> after a valid byte:
\* if / elif / elif over the three categories, then count += 1
observe(byte, win) ==
    IF byte \in self_whitespace
    THEN <<win[1] + 1, win[2] + 1, win[3], win[4]>>
    ELSE IF byte \in self_punctation
    THEN <<win[1] + 1, win[2], win[3] + 1, win[4]>>
    ELSE IF byte \in self_vowels
    THEN <<win[1] + 1, win[2], win[3], win[4] + 1>>
    ELSE <<win[1] + 1, win[2], win[3], win[4]>>

\* a reset that forgets the vowel counter
ZeroWindow_keepvowels == <<0, 0, 0, vowels>>

\* the window after an invalid byte
ZeroWindow == <<0, 0, 0, 0>>

\* an invalid byte that resets the window without leaving the read loop
after_invalid_continue == "read"

\* position after an invalid byte: hb_wait_ubtn, then break
after_invalid == "wait_next"

\* tmp = read(1) returned the byte b
ReadByte(b) ==
    /\ pc = "read"
    /\ Offered(b)
    /\ tmp' = b
    /\ fresh' = FALSE
    /\ LET win == observe(decode(b), Window)
       IN IF is_valid(b)
          THEN /\ SetWindow(win)
               /\ IF is_confirmed(win[1], win[2], win[3], win[4])
                  THEN /\ found' = Append(found, baudrates[idx])
                       /\ pc' = "prompt"
                       /\ cleanFound' =
                            IF ~dirty /\ found = <<>> /\ win[1] = threshold
                            THEN idx ELSE cleanFound
                       /\ dirty' = TRUE
                  ELSE /\ found' = found
                       /\ pc' = "read"
                       /\ UNCHANGED <<cleanFound, dirty>>
               /\ UNCHANGED <<waits, erased>>
          ELSE /\ SetWindow(ZeroWindow)
               /\ found' = found
               /\ pc' = after_invalid
               /\ waits' = IF after_invalid = "wait_next" THEN waits + 1
                                                          ELSE waits
               /\ erased' = count
               /\ dirty' = TRUE
               /\ cleanFound' = cleanFound
    /\ UNCHANGED <<rev, trigger, idx, loop, mode, linkOpen, attempted,
                   bridged, resets, outcome, handshakes, hsFailed,
                   triggers>>

\* a retry test that is off by one
may_trigger_offbyone(t, l) == t /\ l <= MaxTrigger

\* elif trigger and loop < 3
may_trigger(t, l) == t /\ l < MaxTrigger

\* a trigger whose echo wipes the window
trigger_device_wipe(win) == <<0, 0, 0, 0>>

\* trigger_device(): writes CR LF, reads two bytes back and drops them; the
\* window after the call
trigger_device(win) == win

\* tmp = read(1) timed out: trigger the device and read again, or give up
ReadTimeout ==
    /\ pc = "read"
    /\ tmp' = Empty
    /\ IF may_trigger(trigger, loop)
       THEN /\ loop' = loop + 1
            /\ triggers' = triggers + 1
            /\ SetWindow(trigger_device(Window))
            /\ pc' = "read"
            /\ dirty' = dirty
            /\ waits' = waits
       ELSE /\ loop' = loop
            /\ triggers' = triggers
            /\ SetWindow(Window)
            /\ pc' = "wait_next"
            /\ dirty' = (dirty \/ ~fresh)
            /\ waits' = waits + 1
    /\ UNCHANGED <<rev, trigger, idx, fresh, mode, linkOpen, attempted,
                   bridged, found, resets, outcome, cleanFound, handshakes,
                   hsFailed, erased>>

(* ------------------------- waiting for the button ---------------------- *)
WaitPcs == {"wait_next", "wait_reject", "wait_term"}

\* hb_wait_ubtn returned: the button took the adapter out of its mode.
\* After an invalid byte, a timeout or the terminal session the while loop
\* is left; after a rejected rate the for loop is left.
WaitUbtn ==
    /\ pc \in WaitPcs
    /\ linkOpen
    /\ IF pc = "wait_reject"
       THEN /\ resets' = resets + 1
            /\ pc' = "done"
            /\ linkOpen' = FALSE
            /\ mode' = "Console"
            /\ outcome' = "Returned"
            /\ idx' = idx
       ELSE /\ idx' = NextIdx(idx)
            /\ pc' = "change"
            /\ mode' = "BinaryBitbang"
            /\ UNCHANGED <<resets, linkOpen, outcome>>
    /\ UNCHANGED <<rev, trigger, loop, count, whitespace, punctuation, vowels,
                   tmp, fresh, attempted, bridged, found, dirty, cleanFound,
                   handshakes, hsFailed, waits, triggers, erased>>

\* hb_wait_ubtn on a handle that was closed for the terminal session and not
\* reopened: the read raises
WaitClosed ==
    /\ pc \in WaitPcs
    /\ ~linkOpen
    /\ pc' = "done"
    /\ outcome' = "Raised"
    /\ UNCHANGED <<rev, trigger, idx, loop, count, whitespace, punctuation,
                   vowels, tmp, fresh, mode, linkOpen, attempted, bridged,
                   found, resets, dirty, cleanFound, handshakes, hsFailed,
                   waits, triggers, erased>>

(* ------------------------ after a confirmed rate ----------------------- *)
\* the user declines the terminal session: break out of the while loop
PromptNo ==
    /\ pc = "prompt"
    /\ idx' = NextIdx(idx)
    /\ pc' = "change"
    /\ UNCHANGED <<rev, trigger, loop, count, whitespace, punctuation, vowels,
                   tmp, fresh, mode, linkOpen, attempted, bridged, found,
                   resets, outcome, dirty, cleanFound, handshakes, hsFailed,
                   waits, triggers, erased>>

\* the user accepts: the handle is closed and the terminal session starts
PromptYes ==
    /\ pc = "prompt"
    /\ linkOpen' = FALSE
    /\ pc' = "miniterm"
    /\ UNCHANGED <<rev, trigger, idx, loop, count, whitespace, punctuation,
                   vowels, tmp, fresh, mode, attempted, bridged, found,
                   resets, outcome, dirty, cleanFound, handshakes, hsFailed,
                   waits, triggers, erased>>

\* the terminal session returns.  Revision "baudrates" runs init_hb() again
\* (result ignored) and waits for the button; revision "baudrate" breaks.
MinitermReturn ==
    /\ pc = "miniterm"
    /\ IF rev = "baudrates"
       THEN /\ \E hs \in BOOLEAN :
                /\ hsFailed' = ~hs
                /\ IF hs THEN linkOpen' = TRUE /\ mode' = "UartControl"
                         ELSE linkOpen' = linkOpen /\ mode' = mode
            /\ handshakes' = handshakes + 1
            /\ waits' = waits + 1
            /\ pc' = "wait_term"
            /\ idx' = idx
       ELSE /\ idx' = NextIdx(idx)
            /\ pc' = "change"
            /\ UNCHANGED <<linkOpen, mode, handshakes, hsFailed, waits>>
    /\ UNCHANGED <<rev, trigger, loop, count, whitespace, punctuation, vowels,
                   tmp, fresh, attempted, bridged, found, resets, outcome,
                   dirty, cleanFound, triggers, erased>>

(* ------------------------------ Ctrl+C --------------------------------- *)
\* KeyboardInterrupt raised in a blocking read, button wait or prompt: no
\* handler in run() or baudrate_detect(), the exception leaves run()
BlockingPcs == {"read", "prompt"} \cup WaitPcs

Cancel ==
    /\ pc \in BlockingPcs
    /\ pc' = "done"
    /\ outcome' = "Cancelled"
    /\ UNCHANGED <<rev, trigger, idx, loop, count, whitespace, punctuation,
                   vowels, tmp, fresh, mode, linkOpen, attempted, bridged,
                   found, resets, dirty, cleanFound, handshakes, hsFailed,
                   waits, triggers, erased>>

Next ==
    \/ RunInit
    \/ ForNext
    \/ \E ack \in BOOLEAN : change_baudrate(ack)
    \/ \E b \in ByteInputs : ReadByte(b)
    \/ ReadTimeout
    \/ WaitUbtn
    \/ WaitClosed
    \/ PromptNo
    \/ PromptYes
    \/ MinitermReturn
    \/ Cancel

Spec == Init /\ [][Next]_vars

(* ------------------- streams longer than the bound -------------------- *)
\* tmp = read(1) returned one more valid byte of no counted category after
\* MaxCount valid bytes, the window still not being confirmed.  count stands
\* at MaxCount for every larger value: the confirmation test cannot tell them
\* apart, since MaxCount >= threshold.
ReadBeyond(b) ==
    /\ pc = "read"
    /\ count = MaxCount
    /\ is_valid(b)
    /\ observe(decode(b), Window) = <<count + 1, whitespace, punctuation, vowels>>
    /\ ~is_confirmed(count + 1, whitespace, punctuation, vowels)
    /\ tmp' = b
    /\ fresh' = FALSE
    /\ UNCHANGED <<rev, trigger, pc, idx, loop, count, whitespace, punctuation,
                   vowels, mode, linkOpen, attempted, bridged, found, resets,
                   outcome, dirty, cleanFound, handshakes, hsFailed, waits,
                   triggers, erased>>

\* bytes of the streams followed without end: a whitespace, a vowel, two
\* valid bytes of no counted category and an invalid byte
LiveInputs == {32, 97, 120, 192, 127}

NextLive ==
    \/ RunInit
    \/ ForNext
    \/ \E ack \in BOOLEAN : change_baudrate(ack)
    \/ \E b \in LiveInputs : ReadByte(b)
    \/ \E b \in LiveInputs : ReadBeyond(b)
    \/ ReadTimeout
    \/ WaitUbtn
    \/ WaitClosed
    \/ PromptNo
    \/ PromptYes
    \/ MinitermReturn
    \/ Cancel

\* every blocking call returns: the run is never stopped where it can go on
LiveSpec == Init /\ [][NextLive]_vars /\ WF_vars(NextLive)

TypeOK ==
    /\ rev \in Revisions /\ trigger \in BOOLEAN
    /\ pc \in {"start", "change", "set_baud", "read", "prompt", "miniterm",
              "done"} \cup WaitPcs
    /\ idx \in 1..(NumRates + 1)
    /\ loop \in 0..MaxTrigger
    /\ count \in Nat /\ whitespace \in Nat /\ punctuation \in Nat /\ vowels \in Nat
    /\ outcome \in {"Running", "Returned", "Cancelled", "Fatal", "Raised"}

(* ------------------------------ properties ----------------------------- *)
\* the scan order and the valid byte values as the specification states them
ScanOrder == <<9600, 19200, 38400, 57600, 115200>>
ValidCharacterSet == (32..126) \cup {9, 13, 10} \cup {14, 15, 224, 254, 192}

\* the step is a read(1) that returned a byte
ByteStep == pc = "read" /\ pc' # "done" /\ tmp' # Empty

\* C1: once a rate has been reported as found, no baud rate is set, no
\* bridge is started and no rate is reported as found any more.
C1_ScanStopsAfterFound ==
    [][found # <<>> =>
         (attempted' = attempted /\ bridged' = bridged /\ found' = found)]_vars

\* C2: every run that has ended has called the reset to console mode exactly
\* once and has left the adapter in Console mode.
C2_ResetOnceOnEveryExit ==
    pc = "done" => (resets = 1 /\ mode = "Console")

\* C3: a run that returned after the adapter rejected a rate has tried every
\* candidate of the scan order: the rejection did not end the scan.
C3_RejectedRateContinues ==
    (pc = "done" /\ outcome = "Returned" /\ Len(bridged) < Len(attempted))
        => Len(attempted) = Len(ScanOrder)

\* C4: a byte read from the link is counted as valid exactly when it is in
\* ValidCharacterSet.
C4_ValidIffInSet ==
    [][ByteStep => ((count' = count + 1) <=> (tmp' \in ValidCharacterSet))]_vars

\* C5: a rate is reported as found in a step exactly when the step observes
\* a valid byte and the window then has total_valid >= 25, whitespace >= 1
\* and vowel >= 1, whatever the punctuation count.
C5_FoundIffConfirmed ==
    [][(found' # found) <=>
         (count' = count + 1 /\ count' >= 25 /\ whitespace' >= 1 /\ vowels' >= 1)]_vars

C5_Witness ==
    /\ pc = "prompt" /\ found # <<>>
    /\ count = 25 /\ whitespace = 1 /\ vowels = 1 /\ punctuation = 0

\* C6: when the read loop of a candidate begins, the four counters of the
\* window are zero.
C6_WindowZeroAtCandidateStart ==
    (pc = "read" /\ fresh) => Window = <<0, 0, 0, 0>>

\* C7: the rates for which the baud rate was set form a prefix of
\* 9600, 19200, 38400, 57600, 115200, so none is tried twice.
C7_AttemptedIsPrefix ==
    /\ Len(attempted) <= Len(ScanOrder)
    /\ \A i \in 1..Len(attempted) : attempted[i] = ScanOrder[i]

C7_Witness == attempted = ScanOrder

\* C8: a run that ended without cancellation or handshake failure, in which
\* every rate set was accepted and none was confirmed, has tried all five
\* candidates once each, has reported no rate and has returned normally.
C8_ExhaustedTriesAll ==
    (pc = "done" /\ outcome \notin {"Cancelled", "Fatal"}
        /\ bridged = attempted /\ found = <<>>)
        => (attempted = ScanOrder /\ outcome = "Returned")

C8_Witness ==
    /\ pc = "done" /\ outcome = "Returned" /\ found = <<>>
    /\ bridged = ScanOrder /\ attempted = ScanOrder

\* C9: when the candidates before the k-th were silent and the k-th was
\* confirmed at its 25th valid byte, the run that returned has reported
\* exactly the k-th rate.
C9_FoundExactlyKth ==
    (pc = "done" /\ outcome = "Returned" /\ cleanFound # 0)
        => found = <<ScanOrder[cleanFound]>>

\* C10: a cancelled run has reset the adapter to console mode and closed the
\* link when it ends.
C10_CancelCleansUp ==
    outcome = "Cancelled" => (resets = 1 /\ ~linkOpen /\ mode = "Console")

\* C11: once a handshake has failed, no baud rate is set, no bridge is
\* started and no rate is reported as found.
C11_NothingAfterFailedHandshake ==
    [][hsFailed =>
         (attempted' = attempted /\ bridged' = bridged /\ found' = found)]_vars

\* C12: the link is closed when the terminal session starts and stays
\* closed while it runs; when the session returns a handshake is made and
\* the button wait that follows it completes before anything else happens.
C12_TerminalHandoff ==
    [][/\ (pc' = "miniterm" => ~linkOpen')
       /\ (pc = "miniterm" /\ pc' # pc =>
              handshakes' = handshakes + 1 /\ pc' = "wait_term")
       /\ (pc = "wait_term" /\ pc' # pc /\ outcome' # "Cancelled" =>
              pc' = "change" /\ outcome' = "Running")]_vars

\* the step is a read(1) that timed out
TimeoutStep == pc = "read" /\ pc' # "done" /\ tmp' = Empty

\* C13: trigger_device is called only with the trigger option on, after a
\* read that timed out, and at most 3 times for a candidate; the count is 0
\* when the read loop of a candidate starts and bytes that arrive do not
\* change it; a timeout with the option off or after 3 triggers ends the
\* candidate with one button wait.
C13_TriggerPolicy ==
    /\ [](triggers <= 3 /\ (pc = "wait_next" => waits = 1))
    /\ [][/\ (triggers' = triggers + 1 =>
                 trigger /\ TimeoutStep /\ triggers < 3 /\ pc' = "read")
          /\ (pc = "set_baud" /\ pc' = "read" => triggers' = 0)
          /\ (ByteStep => triggers' = triggers)
          /\ (TimeoutStep /\ (~trigger \/ triggers >= 3) =>
                 pc' = "wait_next" /\ waits' = 1 /\ triggers' = triggers)
          /\ (TimeoutStep /\ trigger /\ triggers < 3 =>
                 triggers' = triggers + 1)]_vars

C13_Witness ==
    /\ trigger /\ triggers = 3 /\ pc = "wait_next" /\ waits = 1
    /\ tmp = Empty /\ count > 0

\* the step is a read(1) that returned a byte outside ValidCharacterSet
InvalidStep == ByteStep /\ tmp' \notin ValidCharacterSet

\* C14: an invalid byte, after any number of valid bytes, zeroes the four
\* counters, reports nothing and leads to one button wait; when the wait
\* returns the scan is at the next candidate, which the for loop then enters.
C14_InvalidByteEndsCandidate ==
    [][/\ (InvalidStep =>
              /\ <<count', whitespace', punctuation', vowels'>> = <<0, 0, 0, 0>>
              /\ found' = found
              /\ pc' = "wait_next" /\ waits' = 1)
       /\ (pc = "wait_next" /\ pc' # pc /\ outcome' # "Cancelled" =>
              pc' = "change" /\ idx' = idx + 1 /\ found' = found)
       /\ (pc = "change" /\ idx <= Len(ScanOrder) /\ pc' # pc =>
              pc' = "set_baud" /\ idx' = idx)]_vars

C14_Witness ==
    /\ pc = "change" /\ idx = 2 /\ waits = 1
    /\ tmp \in 0..255 /\ tmp \notin ValidCharacterSet
    /\ erased = 24 /\ Window = <<0, 0, 0, 0>> /\ found = <<>>

\* C15: a baud rate is set only while the adapter is in UartControl mode,
\* in particular never while the bridge of the previous candidate is still
\* active, and a bridge is started only in the step that set a rate from
\* UartControl mode.
C15_SequentialModes ==
    [][/\ (attempted' # attempted => mode = "UartControl")
       /\ (bridged' # bridged =>
              mode = "UartControl" /\ attempted' # attempted)]_vars

\* the step is a read(1) that returned a byte found in valid_characters
ValidStep == ByteStep /\ is_valid(tmp')

Categories == whitespace + punctuation + vowels

\* C16: a valid byte adds exactly 1 to total_valid and 1 to at most one of
\* whitespace, punctuation, vowel, none of which decreases; so total_valid
\* is never below their sum and no counter is negative.
C16_CountersConsistent ==
    /\ [](/\ count >= Categories
          /\ count >= 0 /\ whitespace >= 0 /\ punctuation >= 0 /\ vowels >= 0)
    /\ [][ValidStep =>
            /\ count' = count + 1
            /\ whitespace' >= whitespace /\ punctuation' >= punctuation
            /\ vowels' >= vowels
            /\ Categories' - Categories \in {0, 1}]_vars

C16_Witness ==
    /\ pc = "read" /\ tmp = 120
    /\ whitespace = 1 /\ punctuation = 1 /\ vowels = 1 /\ count = 5

\* C18: a call of trigger_device leaves total_valid, whitespace, punctuation
\* and vowel as they were, classifies nothing and reports nothing.
C18_TriggerKeepsWindow ==
    [][triggers' = triggers + 1 =>
         /\ <<count', whitespace', punctuation', vowels'>> = Window
         /\ tmp' = Empty
         /\ found' = found /\ erased' = erased]_vars

C18_Witness ==
    /\ pc = "read" /\ tmp = Empty /\ triggers = 2
    /\ count = 5 /\ whitespace = 1 /\ vowels = 1

\* C17: every run reaches a terminal outcome, whatever bytes arrive.
C17_RunTerminates == <>(pc = "done")

\* the step reads a valid byte beyond the bound without confirming the rate
BeyondStep ==
    /\ pc = "read" /\ pc' = "read" /\ tmp' \in 0..255
    /\ count = MaxCount /\ count' = count

\* C17 as amended: a run reaches a terminal outcome unless valid bytes that
\* never confirm the rate keep arriving in a read loop without end.
C17_TerminatesUnlessEndlessValid ==
    ([]<><<BeyondStep>>_vars) \/ <>(pc = "done")

C17_Witness ==
    /\ pc = "done" /\ outcome = "Returned" /\ count = MaxCount
    /\ found = <<>> /\ attempted = ScanOrder

====
